---- MODULE Spec2Model ----
(***************************************************************************)
(* Model of class PlotUtility (src/src/smart_home_boxle/plot_utility.h):   *)
(* a 2D plot helper with linear axes that maps values to pixels and calls  *)
(* drawing callbacks.                                                      *)
(*                                                                         *)
(* Doubles are modelled by exact numbers.  Every value that enters the     *)
(* model is an integer, and the code only ever uses the quotient           *)
(* (v - min) / (max - min), so a quotient is kept as the pair              *)
(* <<numerator, denominator>> and the conversion to int is computed on     *)
(* the exact fraction.  For the small magnitudes drawn here the exact      *)
(* result and the IEEE result of static_cast<int> agree: the sum is an     *)
(* integer only when the quotient is an exact half, which a double         *)
(* represents exactly, and otherwise it is farther from an integer than    *)
(* any rounding error.  All results stay far inside the range of int.      *)
(*                                                                         *)
(* A callback is modelled by the log of its invocations: calls is the      *)
(* sequence of argument tuples the last operation passed to its callback.  *)
(***************************************************************************)
EXTENDS Integers, Sequences, FiniteSets

VARIABLES
  posX, posY, width, height,   \* const int members, lines 159-162
  minX, maxX, minY, maxY,      \* const double members, lines 163-166
  xTicks, yTicks,              \* std::vector<PlotTick> members, lines 167-168
  ndebug,                      \* the build: TRUE when NDEBUG makes assert a no-op
  aborted,                     \* TRUE once an assert has failed and abort() ended the program
  op, arg, calls               \* last operation, its argument, its callback invocations

vars == <<posX, posY, width, height, minX, maxX, minY, maxY,
          xTicks, yTicks, ndebug, aborted, op, arg, calls>>

geometry == <<posX, posY, width, height, minX, maxX, minY, maxY, ndebug>>

----------------------------------------------------------------------------
\* Bounds of the model.

MaxDim == 2      \* width and height range over 1..MaxDim
MaxTicks == 2    \* longest tick sequence passed to setXTicks / setYTicks
MaxPoints == 3   \* longest point sequence passed to the point drawing methods

\* The inputs of the constructor and the values passed to the transforms.
PosValues == {-1, 0, 1}
AxisRanges == {<<0, 2>>, <<1, 4>>}
Values == {-1, 0, 1, 2, 3, 4, 5}

\* struct PlotTick: the ticks a caller may pass.  Value 1 lies in both axis
\* ranges, value 3 lies inside <<1, 4>> and outside <<0, 2>>.
PlotTick == {[value |-> 1, label |-> "a"], [value |-> 3, label |-> "b"]}

\* struct PlotPoint: the points a caller may pass.  The first lies inside
\* every axis range, the second outside every axis range.
PlotPoint == {[x |-> 1, y |-> 2], [x |-> -1, y |-> 5]}

RECURSIVE SeqsUpTo(_, _)
SeqsUpTo(S, n) ==
  IF n = 0 THEN {<<>>}
  ELSE LET shorter == SeqsUpTo(S, n - 1)
       IN shorter \cup {Append(s, e) : s \in {t \in shorter : Len(t) = n - 1}, e \in S}

TickSeqs == SeqsUpTo(PlotTick, MaxTicks)
PointSeqs == SeqsUpTo(PlotPoint, MaxPoints)

----------------------------------------------------------------------------
\* Arithmetic.

\* static_cast<int>(n / d) for d > 0: conversion of a double to int truncates
\* toward zero.
TruncToInt(n, d) == IF n >= 0 THEN n \div d ELSE -((-n) \div d)

\* Mutant of getXPixelForXValue: the x axis mirrored like the y axis, as if
\* line 94 had been copied to line 88 with only the names changed.
getXPixelMirrored(x) ==
  LET num == (width - 1) * (maxX - x)
      den == maxX - minX
  IN TruncToInt(2 * posX * den + 2 * num + den, 2 * den)

\* static_cast<int>(posX + (width - 1) * (x - minX) / (maxX - minX) + 0.5):
\* the sum is (2*posX*den + 2*num + den) / (2*den) with num / den the quotient.
getXPixelForXValue(x) ==
  LET num == (width - 1) * (x - minX)
      den == maxX - minX
  IN TruncToInt(2 * posX * den + 2 * num + den, 2 * den)

\* static_cast<int>(posY + (height - 1) * (maxY - y) / (maxY - minY) + 0.5)
getYPixelForYValue(y) ==
  LET num == (height - 1) * (maxY - y)
      den == maxY - minY
  IN TruncToInt(2 * posY * den + 2 * num + den, 2 * den)

\* (tick.value - min) / (max - min), kept as <<numerator, denominator>>.
relativePosition(value, min, max) == <<value - min, max - min>>

----------------------------------------------------------------------------
\* Construction: the state after PlotUtility(posX, posY, width, height, ...)
\* returned.  The four asserts of the constructor hold of every plotter here.

Init ==
  /\ posX \in PosValues
  /\ posY \in PosValues
  /\ width \in 1..MaxDim
  /\ height \in 1..MaxDim
  /\ \E r \in AxisRanges : minX = r[1] /\ maxX = r[2]
  /\ \E r \in AxisRanges : minY = r[1] /\ maxY = r[2]
  /\ width > 0 /\ height > 0 /\ minX < maxX /\ minY < maxY
  /\ ndebug \in BOOLEAN
  /\ aborted = FALSE
  /\ xTicks = <<>>
  /\ yTicks = <<>>
  /\ op = "PlotUtility"
  /\ arg = <<>>
  /\ calls = <<>>

----------------------------------------------------------------------------
\* setXTicks / setYTicks.

\* The for loop of asserts: TRUE when no assert of the loop fails.
AssertTicksInRange(ticks, min, max) ==
  \A i \in 1..Len(ticks) : min <= ticks[i].value /\ ticks[i].value <= max

\* Mutant of AssignTicks: the new ticks are appended to the stored ones, as if
\* the clear were missing and the assignment were an insert at the end.
AssignTicksAppend(old, ticks) == old \o ticks

\* xTicks.clear(); xTicks = ticks;
AssignTicks(old, ticks) == ticks

setXTicks(ticks) ==
  /\ ~aborted
  /\ op' = "setXTicks"
  /\ arg' = ticks
  /\ calls' = <<>>
  /\ IF ~ndebug /\ ~AssertTicksInRange(ticks, minX, maxX)
       THEN aborted' = TRUE /\ xTicks' = xTicks
       ELSE aborted' = aborted /\ xTicks' = AssignTicks(xTicks, ticks)
  /\ UNCHANGED <<geometry, yTicks>>

setYTicks(ticks) ==
  /\ ~aborted
  /\ op' = "setYTicks"
  /\ arg' = ticks
  /\ calls' = <<>>
  /\ IF ~ndebug /\ ~AssertTicksInRange(ticks, minY, maxY)
       THEN aborted' = TRUE /\ yTicks' = yTicks
       ELSE aborted' = aborted /\ yTicks' = AssignTicks(yTicks, ticks)
  /\ UNCHANGED <<geometry, xTicks>>

----------------------------------------------------------------------------
\* drawXAxis / drawYAxis.

drawXAxis ==
  /\ ~aborted
  /\ op' = "drawXAxis"
  /\ arg' = <<>>
  /\ calls' = << <<posX, posY + height - 1, posX + width - 1, posY + height - 1>> >>
  /\ UNCHANGED <<geometry, xTicks, yTicks, aborted>>

drawYAxis ==
  /\ ~aborted
  /\ op' = "drawYAxis"
  /\ arg' = <<>>
  /\ calls' = << <<posX, posY + height - 1, posX, posY>> >>
  /\ UNCHANGED <<geometry, xTicks, yTicks, aborted>>

----------------------------------------------------------------------------
\* drawXTicks / drawYTicks.

\* The body of the range-for of drawXTicks for the i-th stored tick.
XTickCall(tick) ==
  <<getXPixelForXValue(tick.value), posY + height - 1,
    relativePosition(tick.value, minX, maxX), tick.label>>

YTickCall(tick) ==
  <<posX, getYPixelForYValue(tick.value),
    relativePosition(tick.value, minY, maxY), tick.label>>

RECURSIVE XTicksLoop(_, _, _)
XTicksLoop(ticks, i, log) ==
  IF i > Len(ticks) THEN log
  ELSE XTicksLoop(ticks, i + 1, Append(log, XTickCall(ticks[i])))

RECURSIVE YTicksLoop(_, _, _)
YTicksLoop(ticks, i, log) ==
  IF i > Len(ticks) THEN log
  ELSE YTicksLoop(ticks, i + 1, Append(log, YTickCall(ticks[i])))

drawXTicks ==
  /\ ~aborted
  /\ op' = "drawXTicks"
  /\ arg' = <<>>
  /\ calls' = XTicksLoop(xTicks, 1, <<>>)
  /\ UNCHANGED <<geometry, xTicks, yTicks, aborted>>

drawYTicks ==
  /\ ~aborted
  /\ op' = "drawYTicks"
  /\ arg' = <<>>
  /\ calls' = YTicksLoop(yTicks, 1, <<>>)
  /\ UNCHANGED <<geometry, xTicks, yTicks, aborted>>

----------------------------------------------------------------------------
\* The coordinate transforms as operations of their own.

callGetXPixelForXValue(x) ==
  /\ ~aborted
  /\ op' = "getXPixelForXValue"
  /\ arg' = x
  /\ calls' = <<getXPixelForXValue(x)>>
  /\ UNCHANGED <<geometry, xTicks, yTicks, aborted>>

callGetYPixelForYValue(y) ==
  /\ ~aborted
  /\ op' = "getYPixelForYValue"
  /\ arg' = y
  /\ calls' = <<getYPixelForYValue(y)>>
  /\ UNCHANGED <<geometry, xTicks, yTicks, aborted>>

----------------------------------------------------------------------------
\* drawPoints.

\* Mutant of PointsLoop: points outside the axis ranges are skipped.
RECURSIVE PointsLoopClipped(_, _, _)
PointsLoopClipped(points, i, log) ==
  IF i > Len(points) THEN log
  ELSE LET point == points[i]
           x == getXPixelForXValue(point.x)
           y == getYPixelForYValue(point.y)
           inside == /\ minX <= point.x /\ point.x <= maxX
                     /\ minY <= point.y /\ point.y <= maxY
       IN PointsLoopClipped(points, i + 1,
                            IF inside THEN Append(log, <<x, y, point>>) ELSE log)

RECURSIVE PointsLoop(_, _, _)
PointsLoop(points, i, log) ==
  IF i > Len(points) THEN log
  ELSE LET point == points[i]
           x == getXPixelForXValue(point.x)
           y == getYPixelForYValue(point.y)
       IN PointsLoop(points, i + 1, Append(log, <<x, y, point>>))

drawPoints(points) ==
  /\ ~aborted
  /\ op' = "drawPoints"
  /\ arg' = points
  /\ calls' = PointsLoop(points, 1, <<>>)
  /\ UNCHANGED <<geometry, xTicks, yTicks, aborted>>

----------------------------------------------------------------------------
\* drawLinesBetweenPoints.

\* Mutant of LinesLoop: prevPoint, prevX and prevY are assigned for the first
\* point only, so every line starts at the first point.
RECURSIVE LinesLoopStale(_, _, _, _, _, _, _)
LinesLoopStale(points, i, prevPoint, prevX, prevY, isFirst, log) ==
  IF i > Len(points) THEN log
  ELSE LET point == points[i]
           x == getXPixelForXValue(point.x)
           y == getYPixelForYValue(point.y)
       IN IF isFirst
            THEN LinesLoopStale(points, i + 1, point, x, y, FALSE, log)
            ELSE LinesLoopStale(points, i + 1, prevPoint, prevX, prevY, FALSE,
                                Append(log, <<prevX, prevY, x, y, prevPoint, point>>))

\* The range-for of drawLinesBetweenPoints from the i-th point on, with the
\* locals prevPoint, prevX, prevY and isFirst.  prevPoint starts uninitialized
\* and is read only once isFirst is false, that is after it was assigned.
RECURSIVE LinesLoop(_, _, _, _, _, _, _)
LinesLoop(points, i, prevPoint, prevX, prevY, isFirst, log) ==
  IF i > Len(points) THEN log
  ELSE LET point == points[i]
           x == getXPixelForXValue(point.x)
           y == getYPixelForYValue(point.y)
           logged == IF isFirst THEN log
                     ELSE Append(log, <<prevX, prevY, x, y, prevPoint, point>>)
       IN LinesLoop(points, i + 1, point, x, y, FALSE, logged)

drawLinesBetweenPoints(points) ==
  /\ ~aborted
  /\ op' = "drawLinesBetweenPoints"
  /\ arg' = points
  /\ calls' = LinesLoop(points, 1, [x |-> 0, y |-> 0], 0, 0, TRUE, <<>>)
  /\ UNCHANGED <<geometry, xTicks, yTicks, aborted>>

----------------------------------------------------------------------------
\* Specifications.

NextTicks ==
  \/ \E ticks \in TickSeqs : setXTicks(ticks)
  \/ \E ticks \in TickSeqs : setYTicks(ticks)
  \/ drawXAxis
  \/ drawYAxis
  \/ drawXTicks
  \/ drawYTicks

NextPoints ==
  \/ \E x \in Values : callGetXPixelForXValue(x)
  \/ \E y \in Values : callGetYPixelForYValue(y)
  \/ \E points \in PointSeqs : drawPoints(points)
  \/ \E points \in PointSeqs : drawLinesBetweenPoints(points)

Next == NextTicks \/ NextPoints

Spec == Init /\ [][Next]_vars

SpecTicks == Init /\ [][NextTicks]_vars

SpecPoints == Init /\ [][NextPoints]_vars

----------------------------------------------------------------------------
\* Helpers of the properties.

\* The quotient q = <<numerator, denominator>> equals n / d.
QuotientIs(q, n, d) == q[1] * d = n * q[2]

\* The quotient q lies in [0, 1] (its denominator is positive).
InUnitInterval(q) == 0 <= q[1] /\ q[1] <= q[2]

\* round(n / d) taken on the offset alone: add 0.5, truncate toward zero.
RoundOffset(n, d) == TruncToInt(2 * n + d, 2 * d)

Max(a, b) == IF a >= b THEN a ELSE b

----------------------------------------------------------------------------
\* Properties.

\* C1: a setXTicks (setYTicks) call whose sequence holds a tick value outside
\* [minX, maxX] ([minY, maxY]) leaves the stored tick list of that axis exactly
\* as it was before the call.
C1_RejectedBatchLeavesTicks ==
  [][ /\ (op' = "setXTicks" /\ ~AssertTicksInRange(arg', minX, maxX))
           => xTicks' = xTicks
      /\ (op' = "setYTicks" /\ ~AssertTicksInRange(arg', minY, maxY))
           => yTicks' = yTicks ]_vars

\* C2: the ends of the axes map to the ends of the plot area, for every valid
\* plotter: minX to posX, maxX to posX + width - 1, maxY to posY and minY to
\* posY + height - 1.
C2_AxisEndsMapToPlotEdges ==
  /\ (op = "getXPixelForXValue" /\ arg = minX) => calls[1] = posX
  /\ (op = "getXPixelForXValue" /\ arg = maxX) => calls[1] = posX + width - 1
  /\ (op = "getYPixelForYValue" /\ arg = maxY) => calls[1] = posY
  /\ (op = "getYPixelForYValue" /\ arg = minY) => calls[1] = posY + height - 1

\* C3: for every value, inside or outside the axis range, the pixel is the
\* position plus the offset rounded on its own:
\* posX + round((width-1)*(x-minX)/(maxX-minX)) and
\* posY + round((height-1)*(maxY-y)/(maxY-minY)).
C3_PixelIsPosPlusRoundedOffset ==
  /\ op = "getXPixelForXValue"
       => calls[1] = posX + RoundOffset((width - 1) * (arg - minX), maxX - minX)
  /\ op = "getYPixelForYValue"
       => calls[1] = posY + RoundOffset((height - 1) * (maxY - arg), maxY - minY)

\* C4: the transforms are monotone: x1 < x2 gives pixelX(x1) <= pixelX(x2) and
\* y1 < y2 gives pixelY(y1) >= pixelY(y2), also outside the axis range and for
\* negative positions.
C4_TransformsMonotone ==
  /\ op = "getXPixelForXValue"
       => \A x2 \in Values :
            /\ arg < x2 => calls[1] <= getXPixelForXValue(x2)
            /\ x2 < arg => getXPixelForXValue(x2) <= calls[1]
  /\ op = "getYPixelForYValue"
       => \A y2 \in Values :
            /\ arg < y2 => calls[1] >= getYPixelForYValue(y2)
            /\ y2 < arg => getYPixelForYValue(y2) >= calls[1]

\* A value below the axis range was transformed by a plotter at a negative
\* position, and a value above the range maps to a strictly greater pixel.
C4_Witness ==
  /\ op = "getXPixelForXValue"
  /\ posX < 0
  /\ arg < minX
  /\ \E x2 \in Values : x2 > maxX /\ calls[1] < getXPixelForXValue(x2)

\* C5: drawLinesBetweenPoints on N points invokes the callback max(N-1, 0)
\* times, the i-th time with the pixels and the values of points i and i+1.
C5_LinesJoinConsecutivePoints ==
  op = "drawLinesBetweenPoints"
    => /\ Len(calls) = Max(Len(arg) - 1, 0)
       /\ \A i \in 1..Len(calls) :
            calls[i] = <<getXPixelForXValue(arg[i].x), getYPixelForYValue(arg[i].y),
                         getXPixelForXValue(arg[i + 1].x),
                         getYPixelForYValue(arg[i + 1].y),
                         arg[i], arg[i + 1]>>

\* Three points, the second differing from the first, gave two lines.
C5_Witness ==
  /\ op = "drawLinesBetweenPoints"
  /\ Len(arg) = 3
  /\ arg[1] # arg[2]
  /\ Len(calls) = 2

\* C6: drawXTicks (drawYTicks) invokes the callback once per stored tick, in
\* stored order, with the tick's label and the relative position
\* (value - min) / (max - min), which lies in [0, 1].
C6_TickCallbacks ==
  /\ op = "drawXTicks"
       => /\ Len(calls) = Len(xTicks)
          /\ \A i \in 1..Len(calls) :
               /\ calls[i][4] = xTicks[i].label
               /\ QuotientIs(calls[i][3], xTicks[i].value - minX, maxX - minX)
               /\ InUnitInterval(calls[i][3])
  /\ op = "drawYTicks"
       => /\ Len(calls) = Len(yTicks)
          /\ \A i \in 1..Len(calls) :
               /\ calls[i][4] = yTicks[i].label
               /\ QuotientIs(calls[i][3], yTicks[i].value - minY, maxY - minY)
               /\ InUnitInterval(calls[i][3])

\* C7: after a setXTicks(t) (setYTicks(t)) that returned, the stored tick list
\* of that axis is t, element for element.
C7_SetTicksReplaces ==
  /\ (op = "setXTicks" /\ ~aborted) => xTicks = arg
  /\ (op = "setYTicks" /\ ~aborted) => yTicks = arg

\* setXTicks returned after it was given two different ticks, with an earlier
\* setYTicks call behind it.
C7_Witness ==
  /\ op = "setXTicks"
  /\ ~aborted
  /\ Len(arg) = 2
  /\ arg[1] # arg[2]
  /\ Len(yTicks) > 0

\* C8: drawPoints on N points invokes the callback N times, in input order,
\* the i-th time with (pixelX(p_i.x), pixelY(p_i.y), p_i); nothing is removed
\* or clipped.
C8_PointsDrawnInOrder ==
  op = "drawPoints"
    => /\ Len(calls) = Len(arg)
       /\ \A i \in 1..Len(arg) :
            calls[i] = <<getXPixelForXValue(arg[i].x), getYPixelForYValue(arg[i].y),
                         arg[i]>>

\* Three points were drawn, two of them equal and one outside the x range.
C8_Witness ==
  /\ op = "drawPoints"
  /\ Len(arg) = 3
  /\ arg[1] = arg[2]
  /\ \E i \in 1..3 : arg[i].x < minX
  /\ Len(calls) = 3

\* C9: every stored tick lies in the range of its axis in every reachable
\* state, and only setXTicks changes xTicks, only setYTicks changes yTicks.
C9_StoredTicksInRange ==
  [][ /\ AssertTicksInRange(xTicks', minX, maxX)
      /\ AssertTicksInRange(yTicks', minY, maxY)
      /\ op' # "setXTicks" => xTicks' = xTicks
      /\ op' # "setYTicks" => yTicks' = yTicks ]_vars

\* C10: drawXAxis and drawYAxis draw the base lines of the plot area, and
\* every tick is drawn on the base line of its axis.
C10_TicksOnBaseline ==
  /\ op = "drawXAxis"
       => calls = << <<posX, posY + height - 1, posX + width - 1, posY + height - 1>> >>
  /\ op = "drawYAxis"
       => calls = << <<posX, posY + height - 1, posX, posY>> >>
  /\ op = "drawXTicks"
       => \A i \in 1..Len(calls) :
            /\ calls[i][2] = posY + height - 1
            /\ posX <= calls[i][1] /\ calls[i][1] <= posX + width - 1
  /\ op = "drawYTicks"
       => \A i \in 1..Len(calls) :
            /\ calls[i][1] = posX
            /\ posY <= calls[i][2] /\ calls[i][2] <= posY + height - 1

====
